---- MODULE Spec2Model ----
(***************************************************************************)
(* Model of notion_data/block.py: the block union, the `insert_type`       *)
(* before-validator, the discriminated top-level adapter `Block`, the      *)
(* undiscriminated `_ChildBlockUnion` used for children lists, and the     *)
(* serialisation of validated blocks.                                      *)
(*                                                                         *)
(* JSON-like values are records tagged by `kind`:                          *)
(*   [kind |-> "null"]                       None                          *)
(*   [kind |-> "str",  s |-> ...]            a string                      *)
(*   [kind |-> "bool", b |-> ...]            a boolean                     *)
(*   [kind |-> "ts",   sec, frac]            an ISO-8601 timestamp string  *)
(*   [kind |-> "rt"]                         one rich-text object          *)
(*   [kind |-> "list", items |-> <<...>>]    a list                        *)
(*   [kind |-> "map",  entries |-> <<...>>]  a dict, entries [k, v] kept   *)
(*                                           in insertion order            *)
(* Validated values add                                                    *)
(*   [kind |-> "datetime", sec, micro]       a datetime                    *)
(*   [kind |-> "model", fields |-> <<...>>]  a payload model instance      *)
(*   [kind |-> "node", cls, fields]          a block model instance        *)
(***************************************************************************)
EXTENDS Integers, Sequences, FiniteSets, TLC

Null == [kind |-> "null"]
Str(s) == [kind |-> "str", s |-> s]
Bool(b) == [kind |-> "bool", b |-> b]
Ts(sec, frac) == [kind |-> "ts", sec |-> sec, frac |-> frac]
Rt == [kind |-> "rt"]
List(items) == [kind |-> "list", items |-> items]
Map(entries) == [kind |-> "map", entries |-> entries]
E(k, v) == [k |-> k, v |-> v]

IsMap(v) == v.kind = "map"
Keys(m) == {m.entries[i].k : i \in DOMAIN m.entries}
HasKey(m, k) == \E i \in DOMAIN m.entries : m.entries[i].k = k
Get(m, k) == m.entries[CHOOSE i \in DOMAIN m.entries : m.entries[i].k = k].v
Put(m, k, v) ==
    IF HasKey(m, k)
    THEN Map([i \in DOMAIN m.entries |->
                 IF m.entries[i].k = k THEN E(k, v) ELSE m.entries[i]])
    ELSE Map(Append(m.entries, E(k, v)))

(* Results of a validation step: st is "ok", "err" (a pydantic              *)
(* ValidationError, with the error types it lists) or "raise" (any other   *)
(* exception, which pydantic lets through); val is the input value as the  *)
(* step leaves it.                                                         *)
Err(errs) == [kind |-> "err", errs |-> errs]
Raise(exc) == [kind |-> "raise", exc |-> exc]
Res(st, out, val) == [st |-> st, out |-> out, val |-> val]

(* ---------------- the Common Envelope: _BlockCommon fields ------------- *)
EnvelopeFields ==
    << E("object", "LiteralBlock"), E("id", "UUID"), E("parent", "Parent"),
       E("created_time", "datetime"), E("last_edited_time", "datetime"),
       E("created_by", "User"), E("last_edited_by", "User"),
       E("has_children", "bool"), E("archived", "bool"), E("in_trash", "bool"),
       E("request_id", "UUID") >>

EnvelopeKeys == {EnvelopeFields[i].k : i \in DOMAIN EnvelopeFields}

(* ---------------- the variant registry: _BlockCommon subclasses -------- *)
C(cls, tag, field, schema) ==
    [cls |-> cls, tag |-> tag, field |-> field, schema |-> schema]

Registry ==
    << C("Bookmark", "bookmark", "bookmark", "_BookmarkData"),
       C("BreadCrumb", "breadcrumb", "breadcrumb", "dict"),
       C("BulletedListItem", "bulleted_list_item", "bulleted_list_item", "RichText"),
       C("Callout", "callout", "callout", "_CalloutData"),
       C("ChildDatabase", "child_database", "child_database", "_ChildDatabaseData"),
       C("ChildPage", "child_page", "child_page", "_ChildPageData"),
       C("Code", "code", "code", "_CodeData"),
       C("ColumnList", "column_list", "column_list", "dict"),
       C("Column", "column", "column", "dict"),
       C("Heading1", "heading_1", "heading_1", "_HeadingData"),
       C("Divider", "divider", "divider", "dict"),
       C("Embed", "embed", "embed", "Url"),
       C("Equation", "equation", "equation", "_EquationData"),
       C("File", "file", "file", "_FileUnion"),
       C("Heading2", "heading_2", "heading_2", "_HeadingData"),
       C("Heading3", "heading_3", "heading_3", "_HeadingData"),
       C("Image", "image", "image", "_ImageData"),
       C("LinkPreview", "link_preview", "link_to", "Url"),
       C("NumberedListItem", "numbered_list_item", "numbered_list_item",
         "_NumberedListItemData"),
       C("Paragraph", "paragraph", "paragraph", "_ParagraphData"),
       C("Quote", "quote", "quote", "_QuoteData"),
       C("SyncedBlock", "synced_block", "synced_block", "_SyncedBlockData"),
       C("Table", "table", "table", "_TableData"),
       C("TableRow", "table_row", "table_row", "_TableRowData"),
       C("Todo", "to_do", "to_do", "TodoData"),
       C("Toggle", "toggle", "toggle", "_ToggleData"),
       C("Video", "video", "video", "_VideoData") >>

Tags == {Registry[i].tag : i \in DOMAIN Registry}
ClassOf(tag) == Registry[CHOOSE i \in DOMAIN Registry : Registry[i].tag = tag]

(* A payload field: name, type, whether required (no default), default.    *)
F(k, t, req, dflt) == [k |-> k, t |-> t, req |-> req, dflt |-> dflt]

ColorDefault == Str("default")

RecordFields(schema) ==
    CASE schema = "_BookmarkData" ->
           << F("url", "str", TRUE, Null), F("caption", "RichText", TRUE, Null) >>
      [] schema = "_CalloutData" ->
           << F("rich_text", "RichText", TRUE, Null), F("icon", "optstr", FALSE, Null),
              F("color", "Color", FALSE, ColorDefault) >>
      [] schema \in {"_ChildDatabaseData", "_ChildPageData"} -> << F("title", "str", TRUE, Null) >>
      [] schema = "_CodeData" ->
           << F("caption", "RichText", TRUE, Null), F("rich_text", "RichText", TRUE, Null),
              F("language", "Language", TRUE, Null) >>
      [] schema = "_HeadingData" ->
           << F("rich_text", "RichText", TRUE, Null),
              F("color", "Color", FALSE, ColorDefault),
              F("is_toggleable", "bool", FALSE, Bool(FALSE)) >>
      [] schema = "_EquationData" -> << F("expression", "str", TRUE, Null) >>
      [] schema \in {"_ImageData", "_VideoData"} -> << F("file", "_FileUnion", TRUE, Null) >>
      [] schema \in {"_NumberedListItemData", "_ParagraphData", "_QuoteData",
                     "_ToggleData"} ->
           << F("rich_text", "RichText", TRUE, Null),
              F("color", "Color", FALSE, ColorDefault),
              F("children", "children", FALSE, Null) >>
      [] schema = "_SyncedBlockData" ->
           << F("synced_from", "_SyncedFrom", TRUE, Null),
              F("children", "children", FALSE, Null) >>
      [] schema = "_TableData" ->
           << F("table_width", "int", TRUE, Null),
              F("has_column_header", "bool", TRUE, Null),
              F("has_row_header", "bool", TRUE, Null) >>
      [] schema = "_TableRowData" -> << F("cells", "cells", TRUE, Null) >>
      [] schema = "TodoData" ->
           << F("rich_text", "RichText", TRUE, Null),
              F("checked", "bool", FALSE, Bool(FALSE)),
              F("color", "Color", FALSE, ColorDefault),
              F("children", "children", FALSE, Null) >>
      [] OTHER -> << >>

IsRecordSchema(schema) == RecordFields(schema) # << >>

(* ---------------- collaborator schemas (leaf field types) -------------- *)
Invalid == [kind |-> "invalid"]
IsInvalid(v) == v.kind = "invalid"

UUIDStrings ==
    {"59833787-2cf9-4fdf-8782-e53db20768a5", "598337872cf94fdf8782e53db20768a5"}
Colors == {"default", "blue", "red"}
Languages == {"python", "c"}

AllItems(v, knd) == \A i \in DOMAIN v.items : v.items[i].kind = knd

(* datetime parsing keeps the instant: ".000" and no fraction are the same *)
(* datetime, ".500" is half a second later.                                *)
Micro(frac) == IF frac = "500" THEN 500000 ELSE 0
DateTime(sec, micro) == [kind |-> "datetime", sec |-> sec, micro |-> micro]

ParseLeaf(t, v) ==
    CASE t = "LiteralBlock" ->
           IF v = Null \/ v = Str("block") THEN v ELSE Invalid
      [] t = "UUID" ->
           IF v = Null \/ (v.kind = "str" /\ v.s \in UUIDStrings) THEN v ELSE Invalid
      [] t = "datetime" ->
           IF v = Null THEN v
           ELSE IF v.kind = "ts" THEN DateTime(v.sec, Micro(v.frac)) ELSE Invalid
      [] t = "bool" -> IF v.kind = "bool" THEN v ELSE Invalid
      [] t = "int" -> IF v.kind = "int" THEN v ELSE Invalid
      [] t = "str" -> IF v.kind = "str" THEN v ELSE Invalid
      [] t = "optstr" -> IF v.kind \in {"str", "null"} THEN v ELSE Invalid
      [] t \in {"Parent", "User"} -> IF v.kind \in {"map", "null"} THEN v ELSE Invalid
      [] t = "RichText" ->
           IF v.kind = "list" /\ AllItems(v, "rt") THEN v ELSE Invalid
      [] t = "cells" ->
           IF v.kind = "list" /\ \A i \in DOMAIN v.items :
                  v.items[i].kind = "list" /\ AllItems(v.items[i], "rt")
           THEN v ELSE Invalid
      [] t = "Color" -> IF v.kind = "str" /\ v.s \in Colors THEN v ELSE Invalid
      [] t = "Language" -> IF v.kind = "str" /\ v.s \in Languages THEN v ELSE Invalid
      [] t \in {"Url", "_FileUnion"} -> IF IsMap(v) /\ HasKey(v, "url") THEN v ELSE Invalid
      [] t = "_SyncedFrom" ->
           IF v = Null THEN v
           ELSE IF IsMap(v) /\ Keys(v) = {"block_id"}
                   /\ Get(v, "block_id").kind = "str"
                   /\ Get(v, "block_id").s \in UUIDStrings
           THEN [kind |-> "model", fields |-> v.entries] ELSE Invalid
      [] t = "dict" -> IF IsMap(v) THEN v ELSE Invalid
      [] OTHER -> Invalid

(* ---------------- _BlockCommon.insert_type ----------------------------- *)
(* `"type" not in values` and `values["type"] = list(values)[0]` as Python  *)
(* evaluates them on a dict, a list, a str or None.  On a dict the new key *)
(* goes last and the dict written to is the caller's own object.           *)
Inserted(exc, val) == [exc |-> exc, val |-> val]

(* insert_type without its `if`: the first key is written over `type`.    *)
insert_type_unguarded(values) ==
    IF values.kind = "map" /\ values.entries # << >>
    THEN Inserted("none", Put(values, "type", Str(values.entries[1].k)))
    ELSE IF values.kind = "map" THEN Inserted("IndexError", values)
    ELSE Inserted("TypeError", values)

insert_type(values) ==
    CASE values.kind = "map" ->
           IF HasKey(values, "type") THEN Inserted("none", values)
           ELSE IF values.entries = << >> THEN Inserted("IndexError", values)
           ELSE Inserted("none",
                    Map(Append(values.entries, E("type", Str(values.entries[1].k)))))
      [] values.kind = "list" ->
           IF \E i \in DOMAIN values.items : values.items[i] = Str("type")
           THEN Inserted("none", values)
           ELSE IF values.items = << >> THEN Inserted("IndexError", values)
           ELSE Inserted("TypeError", values)
      [] values.kind = "str" ->
           IF values.s = "type" THEN Inserted("none", values)
           ELSE IF values.s = "" THEN Inserted("IndexError", values)
           ELSE Inserted("TypeError", values)
      [] OTHER -> Inserted("TypeError", values)

(* ---------------- validation ------------------------------------------- *)
VARIABLES
    extra,    \* Root.model_config["extra"]: "ignore" or "forbid"
    raw0,     \* a copy of the caller's raw value, taken before any call
    raw,      \* the caller's raw value (the object handed to each call)
    ncalls,   \* conversion calls made so far on raw
    via,      \* the adapter of the last call: "none", "top", "child"
    arg,      \* raw as it was when the last call started
    result,   \* what the last call returned or raised
    prev,     \* [via, arg, result] of the call before the last one
    wire,     \* the serialised form of result, once serialised
    back      \* the result of validating wire again

vars == << extra, raw0, raw, ncalls, via, arg, result, prev, wire, back >>

None == [kind |-> "none"]

(* The one element of a singleton set.  Validation results are bound with *)
(* `x \in {e}` rather than LET so that each step is evaluated once.         *)
The(S) == CHOOSE x \in S : TRUE

RECURSIVE ChildList(_), ChildBlockUnion(_), TryMembers(_, _, _),
          ValidateModel(_, _), ValidateRecord(_, _)

(* The entries' results joined last entry first.                           *)
ChildListJoinReversed(h, t) ==
    IF h.st = "ok" /\ t.st = "ok"
    THEN Res("ok", List(t.out.items \o << h.out >>), List(<< h.val >> \o t.val.items))
    ELSE Res(IF t.st = "raise" THEN "raise" ELSE "err",
             IF t.st = "ok" THEN h.out ELSE t.out, List(<< h.val >> \o t.val.items))

(* The result for a children list from the result h of its first entry and *)
(* the result t of the entries after it.                                   *)
ChildListJoin(h, t) ==
    LET vals == List(<< h.val >> \o t.val.items)
    IN  IF t.st = "raise" THEN Res("raise", t.out, vals)
        ELSE IF h.st = "err" /\ t.st = "err"
        THEN Res("err", Err(h.out.errs \cup t.out.errs), vals)
        ELSE IF h.st = "err" THEN Res("err", h.out, vals)
        ELSE IF t.st = "err" THEN Res("err", t.out, vals)
        ELSE Res("ok", List(<< h.out >> \o t.out.items), vals)

(* `children: list[_ChildBlockUnion] | None`: the entries are validated in  *)
(* list order; an entry's ValidationError is collected and the next entry  *)
(* is validated; any other exception ends the call at once.                *)
ChildList(items) ==
    IF items = << >> THEN Res("ok", List(<< >>), List(<< >>))
    ELSE The({ IF h.st = "raise"
               THEN Res("raise", h.out, List(<< h.val >> \o Tail(items)))
               ELSE The({ChildListJoin(h, t) : t \in {ChildList(Tail(items))}})
               : h \in {ChildBlockUnion(Head(items))} })

ChildrenField(v) ==
    IF v = Null THEN Res("ok", Null, v)
    ELSE IF v.kind = "list" THEN ChildList(v.items)
    ELSE Res("err", Err({"list_type"}), v)

(* A payload model from its raw mapping pv and the result ch of its        *)
(* children field (None when the field is absent or not declared).         *)
RecordFrom(schema, pv, ch) ==
    LET fs == RecordFields(schema)
        val == IF ch = None THEN pv ELSE Put(pv, "children", ch.val)
        parsed(i) ==
            IF ~HasKey(pv, fs[i].k)
            THEN (IF fs[i].req THEN Invalid ELSE fs[i].dflt)
            ELSE IF fs[i].t = "children"
                 THEN (IF ch.st = "ok" THEN ch.out ELSE Invalid)
                 ELSE ParseLeaf(fs[i].t, Get(pv, fs[i].k))
        errs == (IF \E i \in DOMAIN fs : ~HasKey(pv, fs[i].k) /\ fs[i].req
                 THEN {"missing"} ELSE {})
                \cup (IF \E i \in DOMAIN fs : HasKey(pv, fs[i].k) /\ fs[i].t # "children"
                                               /\ IsInvalid(parsed(i))
                      THEN {"value_error"} ELSE {})
                \cup (IF ch # None /\ ch.st = "err" THEN ch.out.errs ELSE {})
                \cup (IF extra = "forbid"
                         /\ Keys(pv) \ {fs[i].k : i \in DOMAIN fs} # {}
                      THEN {"extra_forbidden"} ELSE {})
    IN  IF ch # None /\ ch.st = "raise" THEN Res("raise", ch.out, val)
        ELSE IF errs # {} THEN Res("err", Err(errs), val)
        ELSE Res("ok", [kind |-> "model",
                        fields |-> [i \in DOMAIN fs |-> E(fs[i].k, parsed(i))]], val)

(* A payload model (a Root subclass with declared fields).                 *)
ValidateRecord(schema, pv) ==
    IF ~IsMap(pv) THEN Res("err", Err({"model_type"}), pv)
    ELSE IF HasKey(pv, "children")
            /\ \E i \in DOMAIN RecordFields(schema) : RecordFields(schema)[i].t = "children"
    THEN The({RecordFrom(schema, pv, ch) : ch \in {ChildrenField(Get(pv, "children"))}})
    ELSE RecordFrom(schema, pv, None)

ValidatePayload(schema, pv) ==
    IF IsRecordSchema(schema) THEN ValidateRecord(schema, pv)
    ELSE IF IsInvalid(ParseLeaf(schema, pv)) THEN Res("err", Err({"value_error"}), pv)
    ELSE Res("ok", ParseLeaf(schema, pv), pv)

EnvDefault(t) == IF t = "bool" THEN Bool(FALSE) ELSE Null

(* The fields of member class c validated on the mapping v1 (which holds a *)
(* `type` key), in declaration order: envelope, type, payload; pay is the  *)
(* result of the payload field.  The errors of all fields are collected.   *)
ModelFrom(c, v1, pay) ==
    LET env(i) == IF HasKey(v1, EnvelopeFields[i].k)
                  THEN ParseLeaf(EnvelopeFields[i].v, Get(v1, EnvelopeFields[i].k))
                  ELSE EnvDefault(EnvelopeFields[i].v)
        val == IF HasKey(v1, c.field) THEN Put(v1, c.field, pay.val) ELSE v1
        errs == (IF \E i \in DOMAIN EnvelopeFields : IsInvalid(env(i))
                 THEN {"value_error"} ELSE {})
                \cup (IF Get(v1, "type") = Str(c.tag) THEN {} ELSE {"literal_error"})
                \cup (IF pay.st = "err" THEN pay.out.errs ELSE {})
                \cup (IF extra = "forbid"
                         /\ Keys(v1) \ (EnvelopeKeys \cup {"type", c.field}) # {}
                      THEN {"extra_forbidden"} ELSE {})
    IN  IF pay.st = "raise" THEN Res("raise", pay.out, val)
        ELSE IF errs # {} THEN Res("err", Err(errs), val)
        ELSE Res("ok",
                 [kind |-> "node", cls |-> c.cls,
                  fields |-> [i \in DOMAIN EnvelopeFields |->
                                 E(EnvelopeFields[i].k, env(i))]
                             \o << E("type", Str(c.tag)), E(c.field, pay.out) >>],
                 val)

PayloadOf(c, v1) ==
    IF HasKey(v1, c.field) THEN ValidatePayload(c.schema, Get(v1, c.field))
    ELSE IF c.schema = "dict" THEN Res("ok", Map(<< >>), Null)
    ELSE Res("err", Err({"missing"}), Null)

(* One member class of the union validating `values`: the before-validator *)
(* insert_type, then the declared fields.                                  *)
ValidateModel(c, values) ==
    The({ IF it.exc # "none" THEN Res("raise", Raise(it.exc), it.val)
          ELSE IF ~IsMap(it.val) THEN Res("err", Err({"model_type"}), it.val)
          ELSE The({ModelFrom(c, it.val, pay) : pay \in {PayloadOf(c, it.val)}})
          : it \in {insert_type(values)} })

(* Of two failed members the union reports the one whose literal matched.  *)
Better(a, r) ==
    IF a.st = "ok" THEN a
    ELSE IF r.st = "ok" THEN r
    ELSE IF "literal_error" \in a.out.errs /\ "literal_error" \notin r.out.errs THEN r
    ELSE a

TryMembers(cands, v, acc) ==
    IF cands = << >> THEN Res(acc.st, acc.out, v)
    ELSE The({ IF r.st = "raise" THEN r
               ELSE The({TryMembers(Tail(cands), r.val, b) : b \in {Better(acc, r)}})
               : r \in {ValidateModel(Registry[Head(cands)], v)} })

RECURSIVE SortedSeq(_)
SortedSeq(S) ==
    IF S = {} THEN << >>
    ELSE LET m == CHOOSE x \in S : \A y \in S : x <= y
         IN  << m >> \o SortedSeq(S \ {m})

(* The members after the first that read more of the mapping v1 than its   *)
(* `type`: those named by `type` or by a key of the mapping.               *)
Candidates(v1) ==
    SortedSeq({i \in DOMAIN Registry \ {1} :
                  \/ Get(v1, "type") = Str(Registry[i].tag)
                  \/ HasKey(v1, Registry[i].field)})

(* _ChildBlockUnion: a union without discriminator.  Every member class is *)
(* tried in declaration order on the same object.  A member whose literal  *)
(* differs from `type` and whose payload key is absent fails on its fields *)
(* without reading anything else, so after the first member (which always  *)
(* runs insert_type) only the Candidates are evaluated.                    *)
ChildBlockUnion(values) ==
    The({ IF first.st = "raise" \/ ~IsMap(first.val) THEN first
          ELSE The({TryMembers(cands, first.val, first) : cands \in {Candidates(first.val)}})
          : first \in {ValidateModel(Registry[1], values)} })

(* The top-level union with the validator run before the tag is read.     *)
BlockUnionAfterValidator(values) == ChildBlockUnion(values)

(* Block = TypeAdapter(_BlockUnion): the union discriminated by `type`.    *)
(* The tag is looked up before any member, hence before insert_type, runs. *)
BlockUnion(values) ==
    IF ~IsMap(values) THEN Res("err", Err({"model_attributes_type"}), values)
    ELSE IF ~HasKey(values, "type") THEN Res("err", Err({"union_tag_not_found"}), values)
    ELSE LET t == Get(values, "type")
         IN  IF t.kind = "str" /\ t.s \in Tags
             THEN ValidateModel(ClassOf(t.s), values)
             ELSE Res("err", Err({"union_tag_invalid"}), values)

(* ---------------- serialisation ---------------------------------------- *)
(* format_datetime: second precision, "Z" suffix.                          *)
format_datetime(time) == Ts(time.sec, "none")

(* Fields that are None are left out of the output.                        *)
Populated(e) == e.v.kind # "null"

RECURSIVE Serialize(_)
Serialize(tv) ==
    CASE tv.kind \in {"node", "model"} ->
           LET keep == SelectSeq(tv.fields, Populated)
           IN  Map([i \in DOMAIN keep |-> E(keep[i].k, Serialize(keep[i].v))])
      [] tv.kind = "list" -> List([i \in DOMAIN tv.items |-> Serialize(tv.items[i])])
      [] tv.kind = "datetime" -> format_datetime(tv)
      [] OTHER -> tv

(* ---------------- bounded inputs --------------------------------------- *)
MaxKeys == 3        \* keys of a generated mapping
MaxChildren == 2    \* entries of a generated children list
MaxCalls == 2       \* conversion calls made on one raw value

RT1 == List(<< Rt >>)
UrlV == Map(<< E("url", Str("https://example.com")) >>)
Uuid == Str("59833787-2cf9-4fdf-8782-e53db20768a5")
Text == Map(<< E("rich_text", RT1) >>)
TextBlue == Map(<< E("rich_text", RT1), E("color", Str("blue")) >>)
TextWith(list) == Map(<< E("rich_text", RT1), E("children", List(list)) >>)

(* The values a generated mapping may hold under each key.                 *)
ValuesOf(k) ==
    CASE k = "object" -> {Str("block")}
      [] k = "id" -> {Uuid, Str("not-a-uuid")}
      [] k = "created_time" -> {Ts(1, "none"), Ts(1, "000"), Ts(1, "500")}
      [] k = "paragraph" -> {Text, Map(<< >>)}
      [] k = "quote" -> {TextBlue}
      [] k = "numbered_list_item" -> {Text, TextWith(<< >>)}
      [] k = "bulleted_list_item" -> {RT1, Text}
      [] k = "link_preview" -> {UrlV}
      [] k = "link_to" -> {UrlV}
      [] k = "breadcrumb" -> {Map(<< >>)}
      [] k = "synced_block" ->
           {Map(<< E("synced_from", Null) >>),
            Map(<< E("synced_from", Map(<< E("block_id", Uuid) >>)) >>)}
      [] OTHER -> {}

InputKeys ==
    << "object", "id", "created_time", "paragraph", "quote", "numbered_list_item",
       "bulleted_list_item", "link_preview", "link_to", "breadcrumb", "synced_block" >>

(* The keys of the generated mappings that have no `type` key.             *)
UntypedKeys ==
    << "object", "id", "paragraph", "quote", "numbered_list_item",
       "bulleted_list_item", "link_preview" >>

TypeValues ==
    {"paragraph", "numbered_list_item", "bulleted_list_item", "link_preview",
     "breadcrumb", "synced_block", "bogus_type"}

(* Mappings without a `type` key: every order of up to n distinct keys.    *)
RECURSIVE Untyped(_)
Untyped(n) ==
    IF n = 0 THEN {<< >>}
    ELSE LET shorter == Untyped(n - 1)
         IN  shorter \cup
             UNION {UNION {{Append(m, E(UntypedKeys[j], v)) : v \in ValuesOf(UntypedKeys[j])}
                              : j \in {j \in DOMAIN UntypedKeys :
                                         \A i \in DOMAIN m : m[i].k # UntypedKeys[j]}}
                       : m \in {m \in shorter : Len(m) = n - 1}}

(* Mappings with a `type` key: key order plays no part once `type` is      *)
(* there, so the other keys come in InputKeys order.                       *)
RECURSIVE Ordered(_, _)
Ordered(n, from) ==
    IF n = 0 \/ from > Len(InputKeys) THEN {<< >>}
    ELSE Ordered(n, from + 1) \cup
         UNION {{<< E(InputKeys[from], v) >> \o m : v \in ValuesOf(InputKeys[from])}
                   : m \in Ordered(n - 1, from + 1)}

Typed(n) ==
    UNION {{<< E("type", Str(t)) >> \o m : t \in TypeValues} : m \in Ordered(n - 1, 1)}

NonMappings == {Str("abc"), Str("type"), Str(""), List(<< >>), List(<< Rt >>), Null}

FlatInputs == {Map(m) : m \in Untyped(MaxKeys) \cup Typed(MaxKeys)} \cup NonMappings

(* Entries of an innermost children list.                                  *)
LeafKids ==
    { Map(<< E("paragraph", Text) >>),
      Map(<< E("bulleted_list_item", RT1) >>),
      Map(<< E("id", Uuid), E("quote", TextBlue) >>),
      Map(<< E("type", Str("quote")), E("quote", TextBlue) >>),
      Map(<< >>),
      Str("abc") }

RECURSIVE ListsOver(_, _)
ListsOver(S, n) ==
    IF n = 0 THEN {<< >>}
    ELSE LET shorter == ListsOver(S, n - 1)
         IN  shorter \cup {Append(l, x) : l \in {l \in shorter : Len(l) = n - 1}, x \in S}

(* A parent around a children list: inferred, tagged, and tagged wrongly.  *)
Parents(list) ==
    { Map(<< E("paragraph", TextWith(list)) >>),
      Map(<< E("type", Str("paragraph")), E("paragraph", TextWith(list)) >>),
      Map(<< E("type", Str("bogus_type")), E("quote", TextWith(list)) >>) }

TwoLevel == UNION {Parents(l) : l \in ListsOver(LeafKids, MaxChildren)}

(* Three levels: one entry of the middle list is itself a parent.          *)
Sibling == Map(<< E("quote", TextBlue) >>)
MidKids == {Map(<< E("paragraph", TextWith(l)) >>) : l \in ListsOver(LeafKids, MaxChildren)}
MidLists ==
    {<< d >> : d \in MidKids}
    \cup {<< Sibling, d >> : d \in MidKids} \cup {<< d, Sibling >> : d \in MidKids}
ThreeLevel ==
    UNION {{Map(<< E("paragraph", TextWith(l)) >>),
            Map(<< E("type", Str("paragraph")), E("paragraph", TextWith(l)) >>)}
              : l \in MidLists}

Inputs == FlatInputs \cup TwoLevel \cup ThreeLevel

(* ---------------- the conversion calls --------------------------------- *)
Call(v, a, r) == [via |-> v, arg |-> a, result |-> r]

Init ==
    /\ extra \in {"ignore", "forbid"}
    /\ raw0 \in Inputs
    /\ raw = raw0
    /\ ncalls = 0
    /\ via = "none"
    /\ arg = None
    /\ result = None
    /\ prev = None
    /\ wire = None
    /\ back = None

Record(how, r) ==
    /\ prev' = IF ncalls = 0 THEN None ELSE Call(via, arg, result)
    /\ via' = how
    /\ arg' = raw
    /\ result' = r.out
    /\ raw' = r.val
    /\ ncalls' = ncalls + 1
    /\ UNCHANGED << extra, raw0, wire, back >>

(* Block.validate_python(raw)                                              *)
ValidateTop ==
    /\ ncalls < MaxCalls
    /\ wire = None
    /\ \E r \in {BlockUnion(raw)} : Record("top", r)

(* raw validated as an entry of a children list                            *)
ValidateChild ==
    /\ ncalls < MaxCalls
    /\ wire = None
    /\ \E r \in {ChildBlockUnion(raw)} : Record("child", r)

(* Block.dump_python(result)                                               *)
Dump ==
    /\ ncalls = 1
    /\ result.kind = "node"
    /\ wire = None
    /\ wire' = Serialize(result)
    /\ UNCHANGED << extra, raw0, raw, ncalls, via, arg, result, prev, back >>

(* the output validated again, by the adapter that produced result         *)
Revalidate ==
    /\ wire # None
    /\ back = None
    /\ back' = IF via = "top" THEN BlockUnion(wire).out ELSE ChildBlockUnion(wire).out
    /\ UNCHANGED << extra, raw0, raw, ncalls, via, arg, result, prev, wire >>

Next == ValidateTop \/ ValidateChild \/ Dump \/ Revalidate

Spec == Init /\ [][Next]_vars

(* ---------------- properties ------------------------------------------- *)
CallsMade ==
    (IF via = "none" THEN {} ELSE {Call(via, arg, result)})
    \cup (IF prev = None THEN {} ELSE {prev})

ResultOf(how, v) == IF how = "top" THEN BlockUnion(v).out ELSE ChildBlockUnion(v).out

NodeField(n, k) == Get(Map(n.fields), k)
TagOf(n) == NodeField(n, "type").s
PayloadField(n) == n.fields[Len(n.fields)].k
PayloadValue(n) == n.fields[Len(n.fields)].v
KidsOf(n) == Get(Map(PayloadValue(n).fields), "children")
ClassNamed(cls) == Registry[CHOOSE i \in DOMAIN Registry : Registry[i].cls = cls]
DeclaresChildren(schema) ==
    \E i \in DOMAIN RecordFields(schema) : RecordFields(schema)[i].t = "children"

Untagged(m) == IsMap(m) /\ ~HasKey(m, "type")
PayloadKeys(m) == Keys(m) \ (EnvelopeKeys \cup {"type"})
EnvelopeValid(m) ==
    \A i \in DOMAIN EnvelopeFields :
        HasKey(m, EnvelopeFields[i].k)
            => ~IsInvalid(ParseLeaf(EnvelopeFields[i].v, Get(m, EnvelopeFields[i].k)))

(* The unknown-variant failure: union_tag_invalid from the discriminated   *)
(* union, the literal error of every member from the undiscriminated one.  *)
UnknownVariant(r) ==
    r.kind = "err" /\ r.errs \cap {"union_tag_invalid", "literal_error"} # {}

RECURSIVE SubSecond(_), NullSyncedFrom(_), ChildrenKept(_, _)

(* Some timestamp inside the validated value has a sub-second part.        *)
SubSecond(tv) ==
    CASE tv.kind \in {"node", "model"} ->
           \E i \in DOMAIN tv.fields : SubSecond(tv.fields[i].v)
      [] tv.kind = "list" -> \E i \in DOMAIN tv.items : SubSecond(tv.items[i])
      [] tv.kind = "datetime" -> tv.micro # 0
      [] OTHER -> FALSE

(* Some synced_block inside the validated value has synced_from = None.    *)
NullSyncedFrom(tv) ==
    CASE tv.kind \in {"node", "model"} ->
           \E i \in DOMAIN tv.fields :
               \/ tv.fields[i].k = "synced_from" /\ tv.fields[i].v = Null
               \/ NullSyncedFrom(tv.fields[i].v)
      [] tv.kind = "list" -> \E i \in DOMAIN tv.items : NullSyncedFrom(tv.items[i])
      [] OTHER -> FALSE

(* Node n, validated from the raw mapping m, holds one validated child per *)
(* raw children entry, in list order, each the result of validating that   *)
(* entry on its own; so do its children, at every depth.                   *)
ChildrenKept(n, m) ==
    DeclaresChildren(ClassNamed(n.cls).schema)
    => LET rp == Get(m, PayloadField(n))
           kids == KidsOf(n)
       IN  IF ~HasKey(rp, "children") \/ Get(rp, "children") = Null
           THEN kids = Null
           ELSE LET L == Get(rp, "children").items
                IN  /\ kids.kind = "list"
                    /\ Len(kids.items) = Len(L)
                    /\ \A i \in DOMAIN L :
                          /\ kids.items[i] = ChildBlockUnion(L[i]).out
                          /\ ChildrenKept(kids.items[i], L[i])

EmptyChildrenUnder(m) ==
    {k \in Keys(m) : /\ IsMap(Get(m, k))
                     /\ HasKey(Get(m, k), "children")
                     /\ Get(Get(m, k), "children") = List(<< >>)}

WithoutChildren(m, k) ==
    Put(m, k, Map(SelectSeq(Get(m, k).entries, LAMBDA e : e.k # "children")))

AsBulleted(m) ==
    Map([i \in DOMAIN m.entries |->
            IF m.entries[i].k = "numbered_list_item"
            THEN E("bulleted_list_item", m.entries[i].v)
            ELSE IF m.entries[i] = E("type", Str("numbered_list_item"))
            THEN E("type", Str("bulleted_list_item"))
            ELSE m.entries[i]])

(* C1: a children entry without `type` whose only non-envelope key K holds *)
(* a valid payload of variant K (and whose envelope values are valid)      *)
(* resolves to variant K, wherever K stands among the keys.                *)
C1_SoleExtraKeyInferred ==
    \A c \in CallsMade :
        (c.via = "child" /\ Untagged(c.arg) /\ Cardinality(PayloadKeys(c.arg)) = 1)
        => LET K == CHOOSE k \in PayloadKeys(c.arg) : TRUE
           IN  (/\ K \in Tags
                /\ EnvelopeValid(c.arg)
                /\ ValidatePayload(ClassOf(K).schema, Get(c.arg, K)).st = "ok")
               => (c.result.kind = "node" /\ TagOf(c.result) = K)

(* C2: a mapping without `type` that has no non-envelope key, or two or    *)
(* more, is refused with a structured error; no node is produced.          *)
C2_AmbiguousRefused ==
    \A c \in CallsMade :
        (Untagged(c.arg) /\ Cardinality(PayloadKeys(c.arg)) # 1)
        => c.result.kind = "err"

(* C3: a mapping with a `type` key is resolved by that value alone: a node *)
(* it yields has that tag, the key is left as it was, and a value that is  *)
(* no registered tag is refused with the unknown-variant error, at the top *)
(* level and as a children entry alike.                                    *)
C3_ExplicitTagUsed ==
    /\ \A c \in CallsMade :
          (IsMap(c.arg) /\ HasKey(c.arg, "type"))
          => /\ c.result.kind = "node" => Str(TagOf(c.result)) = Get(c.arg, "type")
             /\ Get(c.arg, "type") \notin {Str(t) : t \in Tags} => UnknownVariant(c.result)
    /\ (via # "none" /\ IsMap(arg) /\ HasKey(arg, "type"))
          => Get(raw, "type") = Get(arg, "type")

C5_PayloadKeyIsTag ==
    /\ \A c \in CallsMade : c.result.kind = "node" => PayloadField(c.result) = TagOf(c.result)
    /\ wire # None => HasKey(wire, TagOf(result))

(* C6: a call leaves the caller's raw value as it was, and the same call   *)
(* made twice on the same object gives the same result.                    *)
C6_InputUnchanged ==
    /\ raw = raw0
    /\ (prev # None /\ prev.via = via) => prev.result = result

(* C7: the children of a validated node are the validated entries of the   *)
(* raw children list, one per entry, in list order, each the result of     *)
(* validating that entry alone, at every depth; absent children stay       *)
(* absent, and an empty children list never turns a valid node invalid.    *)
C7_ChildrenInOrder ==
    \A c \in CallsMade :
        /\ c.result.kind = "node" => ChildrenKept(c.result, c.arg)
        /\ IsMap(c.arg) =>
              \A k \in EmptyChildrenUnder(c.arg) :
                  ResultOf(c.via, WithoutChildren(c.arg, k)).kind = "node"
                      => c.result.kind = "node"

(* C7 witness: a paragraph with two children, the second of which has two  *)
(* children of its own (a bulleted_list_item first), validated to a tree   *)
(* of three levels in input order.                                         *)
C7_Witness ==
    /\ result.kind = "node" /\ result.cls = "Paragraph"
    /\ KidsOf(result).kind = "list" /\ Len(KidsOf(result).items) = 2
    /\ KidsOf(result).items[1].cls = "Quote"
    /\ KidsOf(result).items[2].cls = "Paragraph"
    /\ KidsOf(KidsOf(result).items[2]).kind = "list"
    /\ Len(KidsOf(KidsOf(result).items[2]).items) = 2
    /\ KidsOf(KidsOf(result).items[2]).items[1].cls = "BulletedListItem"
    /\ KidsOf(KidsOf(result).items[2]).items[2].cls = "Paragraph"

(* C8: a call returns a node or fails with a structured validation error;  *)
(* no other exception leaves it.                                           *)
C8_OnlyStructuredErrors == \A c \in CallsMade : c.result.kind \in {"node", "err"}

(* C9: a mapping accepted as a numbered_list_item is accepted, with the    *)
(* same rich_text, color and children, when it says bulleted_list_item     *)
(* instead.                                                                *)
C9_BulletedLikeNumbered ==
    \A c \in CallsMade :
        (c.result.kind = "node" /\ c.result.cls = "NumberedListItem")
        => /\ ResultOf(c.via, AsBulleted(c.arg)).kind = "node"
           /\ PayloadValue(ResultOf(c.via, AsBulleted(c.arg))) = PayloadValue(c.result)

(* C10: the top-level adapter refuses every mapping without a `type` key,  *)
(* with the missing-tag error and before insert_type touches the mapping,  *)
(* also when the same mapping is accepted as a children entry.             *)
C10_TopLevelNeedsType ==
    /\ \A c \in CallsMade :
          (c.via = "top" /\ Untagged(c.arg))
          => (c.result.kind = "err" /\ c.result.errs = {"union_tag_not_found"})
    /\ (via = "top" /\ Untagged(arg)) => raw = arg

(* C10 witness: one mapping without `type`, refused by the top-level       *)
(* adapter and then accepted as a children entry.                          *)
C10_Witness ==
    /\ prev # None /\ prev.via = "top" /\ via = "child"
    /\ arg = prev.arg /\ Untagged(arg)
    /\ prev.result.kind = "err" /\ result.kind = "node"
====
